---------------------------- MODULE Spec2Model ----------------------------
(***************************************************************************)
(* A model of srt.py: the SRT block tokenizer (SRT_REGEX and parse), the   *)
(* contiguity validator, the Subtitle value type and its comparisons, the  *)
(* legalizer, the timestamp codec, sort_and_reindex and compose.           *)
(*                                                                         *)
(* A Python str is a sequence of one-character strings and offsets are     *)
(* 0-based as in the source: the character at offset k of s is s[k + 1].   *)
(* A datetime.timedelta is the normalised triple Python stores:            *)
(* [days, seconds, microseconds].                                          *)
(***************************************************************************)
EXTENDS Integers, Sequences, FiniteSets, TLC

VARIABLES
    \* parse(srt): the generator's frame and what its consumer has seen
    srt,             \* the text being parsed
    pos,             \* where SRT_REGEX.finditer resumes scanning
    expected_start,  \* parse's local expected_start
    pending_end,     \* match.end() of the block the generator is suspended on
    subs,            \* the Subtitles the consumer has received so far
    spans,           \* <<match.start(), match.end()>> of each yielded block
    error,           \* the exception raised, or NoError
    ppc,             \* "run", "done" (StopIteration), "error" (SRTParseError)
                     \* or "overflow" (OverflowError)
    composed,        \* compose(parse(srt)) once the parse is exhausted
    \* sort_and_reindex(subtitles, start_index, in_place)
    heap,            \* object id -> Subtitle fields
    orig,            \* the caller's objects as they were before the call
    input,           \* the caller's sequence of object ids
    start_index,
    in_place,
    sorted_subs,     \* the result of sorted(subtitles), as object ids
    sub_pos,         \* how many elements of sorted_subs the loop has taken
    skipped_subs,
    yielded,         \* what the consumer has received: [ref, value] records
    spc,             \* "new", "run" or "done"
    \* make_legal_content(content)
    content,
    legal_once,
    legal_twice,
    lpc,
    \* comparisons of two Subtitles
    sub_a,
    sub_b,
    cmp,
    cpc,
    \* the timestamp codec
    dur,             \* the timedelta handed to timedelta_to_srt_timestamp
    ts_text,         \* its SRT timestamp
    decoded,         \* srt_timestamp_to_timedelta(ts_text)
    decoded_dot,     \* the same with "." before the milliseconds
    tpc              \* "new", "encoded", "decoded" or "done"

parseVars == <<srt, pos, expected_start, pending_end, subs, spans, error, ppc, composed>>
sortVars == <<heap, orig, input, start_index, in_place, sorted_subs, sub_pos,
              skipped_subs, yielded, spc>>
legalVars == <<content, legal_once, legal_twice, lpc>>
cmpVars == <<sub_a, sub_b, cmp, cpc>>
codecVars == <<dur, ts_text, decoded, decoded_dot, tpc>>
vars == <<parseVars, sortVars, legalVars, cmpVars, codecVars>>

-----------------------------------------------------------------------------
(* Strings *)

NL == "\n"
DigitChars == {"0", "1", "2", "3", "4", "5", "6", "7", "8", "9"}
DigitVal == ("0" :> 0) @@ ("1" :> 1) @@ ("2" :> 2) @@ ("3" :> 3) @@ ("4" :> 4) @@
            ("5" :> 5) @@ ("6" :> 6) @@ ("7" :> 7) @@ ("8" :> 8) @@ ("9" :> 9)
DigitChar == <<"0", "1", "2", "3", "4", "5", "6", "7", "8", "9">>
\* the characters str.strip() removes, among those the model uses
Whitespace == {" ", NL}

\* s[a:b] for 0 <= a, b
Slice(s, a, b) == SubSeq(s, a + 1, IF b > Len(s) THEN Len(s) ELSE b)

\* s[k] == c, false beyond the end
Lit(s, k, c) == k < Len(s) /\ s[k + 1] = c

Min(S) == CHOOSE x \in S : \A y \in S : x <= y

RECURSIVE Concat(_)
Concat(ss) == IF ss = <<>> THEN <<>> ELSE Head(ss) \o Concat(Tail(ss))

RECURSIVE Repeat(_, _)
Repeat(c, n) == IF n <= 0 THEN <<>> ELSE <<c>> \o Repeat(c, n - 1)

\* int(x) of a string of decimal digits
RECURSIVE int(_)
int(x) == IF x = <<>> THEN 0 ELSE int(SubSeq(x, 1, Len(x) - 1)) * 10 + DigitVal[x[Len(x)]]

\* '%d' % n
RECURSIVE NatToStr(_)
NatToStr(n) == IF n < 10 THEN <<DigitChar[n + 1]>>
               ELSE NatToStr(n \div 10) \o <<DigitChar[(n % 10) + 1]>>
FormatD(n) == IF n < 0 THEN <<"-">> \o NatToStr(-n) ELSE NatToStr(n)

\* '%0<w>d' % n for n >= 0
FormatZeroPad(n, w) == LET d == NatToStr(n) IN Repeat("0", w - Len(d)) \o d

\* sep.split-style splitting: s.split(c) for a one-character separator,
\* generalised to a set of separators for re.split('[,:.]', s)
RECURSIVE SplitOn(_, _)
SplitOn(s, seps) ==
    IF \A k \in 1..Len(s) : s[k] \notin seps THEN <<s>>
    ELSE LET k == Min({j \in 1..Len(s) : s[j] \in seps})
         IN <<SubSeq(s, 1, k - 1)>> \o SplitOn(SubSeq(s, k + 1, Len(s)), seps)

\* sep.join(parts) for a one-character separator
RECURSIVE Join(_, _)
Join(parts, c) ==
    IF parts = <<>> THEN <<>>
    ELSE IF Len(parts) = 1 THEN parts[1]
    ELSE parts[1] \o <<c>> \o Join(Tail(parts), c)

\* s.strip()
RECURSIVE LStrip(_)
LStrip(s) == IF s # <<>> /\ Head(s) \in Whitespace THEN LStrip(Tail(s)) ELSE s
RECURSIVE RStrip(_)
RStrip(s) == IF s # <<>> /\ s[Len(s)] \in Whitespace
             THEN RStrip(SubSeq(s, 1, Len(s) - 1)) ELSE s
Strip(s) == RStrip(LStrip(s))

-----------------------------------------------------------------------------
(* datetime.timedelta and the timestamp codec *)

SECONDS_IN_HOUR == 3600
SECONDS_IN_MINUTE == 60
HOURS_IN_DAY == 24
SECONDS_IN_DAY == HOURS_IN_DAY * SECONDS_IN_HOUR

MINUTES_IN_DAY == HOURS_IN_DAY * (SECONDS_IN_HOUR \div SECONDS_IN_MINUTE)
MILLISECONDS_IN_DAY == SECONDS_IN_DAY * 1000

\* timedelta.max.days: a timedelta of more days is an OverflowError
TIMEDELTA_MAX_DAYS == 999999999

\* the exception raised in place of a timedelta
OverflowError == [raised |-> TRUE, type |-> "OverflowError"]

\* Python's integers are unbounded and the model's are 32 bits wide, so an
\* amount handed to timedelta() is held as divmod(amount, units in a day):
\* q whole days and r units.  q stops at TIMEDELTA_MAX_DAYS + 1, which is
\* already out of range.
DivMod(n, d) == [q |-> n \div d, r |-> n % d]

\* divmod(int(x), d) for a string x of decimal digits, one digit at a time
RECURSIVE DivModOfDigits(_, _)
DivModOfDigits(x, d) ==
    IF x = <<>> THEN [q |-> 0, r |-> 0]
    ELSE LET p == DivModOfDigits(SubSeq(x, 1, Len(x) - 1), d)
             t == p.r * 10 + DigitVal[x[Len(x)]]
         IN IF p.q > TIMEDELTA_MAX_DAYS \div 10
            THEN [q |-> TIMEDELTA_MAX_DAYS + 1, r |-> 0]
            ELSE [q |-> p.q * 10 + t \div d, r |-> t % d]

\* a + b for day counts up to TIMEDELTA_MAX_DAYS + 1, stopping there
AddDays(a, b) ==
    IF a > TIMEDELTA_MAX_DAYS - b THEN TIMEDELTA_MAX_DAYS + 1 ELSE a + b

\* timedelta(hours=, minutes=, seconds=, milliseconds=) for non-negative
\* arguments given as days and remainder: the normalised timedelta, or
\* OverflowError when it has more than TIMEDELTA_MAX_DAYS days
TimedeltaOfParts(hrs, mins, secs, msecs) ==
    LET rest == hrs.r * SECONDS_IN_HOUR + mins.r * SECONDS_IN_MINUTE + secs.r +
                (msecs.r \div 1000)
        days == AddDays(AddDays(AddDays(hrs.q, mins.q), AddDays(secs.q, msecs.q)),
                        rest \div SECONDS_IN_DAY)
    IN IF days > TIMEDELTA_MAX_DAYS THEN OverflowError
       ELSE [days |-> days,
             seconds |-> rest % SECONDS_IN_DAY,
             microseconds |-> (msecs.r % 1000) * 1000]

\* timedelta(hours=, minutes=, seconds=, milliseconds=) for non-negative
\* arguments that fit the model's integers
timedelta(hrs, mins, secs, msecs) ==
    TimedeltaOfParts(DivMod(hrs, HOURS_IN_DAY), DivMod(mins, MINUTES_IN_DAY),
                     DivMod(secs, SECONDS_IN_DAY), DivMod(msecs, MILLISECONDS_IN_DAY))

\* timedelta.__lt__
TimedeltaLess(a, b) ==
    \/ a.days < b.days
    \/ a.days = b.days /\ a.seconds < b.seconds
    \/ a.days = b.days /\ a.seconds = b.seconds /\ a.microseconds < b.microseconds

\* a variant that formats the hours of the day and leaves the days out
timedelta_to_srt_timestamp_HourOfDay(timedelta_timestamp) ==
    LET hrs == timedelta_timestamp.seconds \div SECONDS_IN_HOUR
        secs_remainder == timedelta_timestamp.seconds % SECONDS_IN_HOUR
        mins == secs_remainder \div SECONDS_IN_MINUTE
        secs == secs_remainder % SECONDS_IN_MINUTE
        msecs == timedelta_timestamp.microseconds \div 1000
    IN FormatZeroPad(hrs, 2) \o <<":">> \o FormatZeroPad(mins, 2) \o <<":">> \o
       FormatZeroPad(secs, 2) \o <<",">> \o FormatZeroPad(msecs, 3)

timedelta_to_srt_timestamp(timedelta_timestamp) ==
    LET hrs0 == timedelta_timestamp.seconds \div SECONDS_IN_HOUR
        secs_remainder == timedelta_timestamp.seconds % SECONDS_IN_HOUR
        hrs == hrs0 + timedelta_timestamp.days * HOURS_IN_DAY
        mins == secs_remainder \div SECONDS_IN_MINUTE
        secs == secs_remainder % SECONDS_IN_MINUTE
        msecs == timedelta_timestamp.microseconds \div 1000
    IN FormatZeroPad(hrs, 2) \o <<":">> \o FormatZeroPad(mins, 2) \o <<":">> \o
       FormatZeroPad(secs, 2) \o <<",">> \o FormatZeroPad(msecs, 3)

\* defined on the texts SRT_REGEX lets through: four runs of digits.  The
\* value is the timedelta, or OverflowError when timedelta() raises it.
\* (An interpreter that limits int() to 4300 digits raises ValueError on a
\* longer field; the texts of the model are shorter.)
srt_timestamp_to_timedelta(srt_timestamp) ==
    LET f == SplitOn(srt_timestamp, {",", ":", "."})
    IN TimedeltaOfParts(DivModOfDigits(f[1], HOURS_IN_DAY),
                        DivModOfDigits(f[2], MINUTES_IN_DAY),
                        DivModOfDigits(f[3], SECONDS_IN_DAY),
                        DivModOfDigits(f[4], MILLISECONDS_IN_DAY))

-----------------------------------------------------------------------------
(* The Subtitle value type *)

Subtitle(index, start, end, cont, proprietary) ==
    [index |-> index, start |-> start, end |-> end, content |-> cont,
     proprietary |-> proprietary]

-----------------------------------------------------------------------------
(* SRT_REGEX.  Every operator takes the subject string and an offset and    *)
(* gives the offset the sub-pattern ends at, or -1 when it does not match.  *)

NoMatch == -1

\* \d+ is greedy and every use is followed by a non-digit, so only the
\* longest run of digits can lead to a match
RECURSIVE DigitsEnd(_, _)
DigitsEnd(s, i) == IF i < Len(s) /\ s[i + 1] \in DigitChars THEN DigitsEnd(s, i + 1) ELSE i

\* \d+ followed by the one character c
DigitsThen(s, i, cs) ==
    IF i = NoMatch THEN NoMatch
    ELSE LET e == DigitsEnd(s, i)
         IN IF e > i /\ e < Len(s) /\ s[e + 1] \in cs THEN e + 1 ELSE NoMatch

\* \d+ alone
DigitsOnly(s, i) ==
    IF i = NoMatch THEN NoMatch
    ELSE LET e == DigitsEnd(s, i) IN IF e > i THEN e ELSE NoMatch

\* a literal string
RECURSIVE LitSeq(_, _, _)
LitSeq(s, i, w) ==
    IF i = NoMatch THEN NoMatch
    ELSE IF w = <<>> THEN i
    ELSE IF Lit(s, i, Head(w)) THEN LitSeq(s, i + 1, Tail(w))
    ELSE NoMatch

\* \d+:\d+:\d+[,.]\d+
TimestampEnd(s, i) ==
    DigitsOnly(s, DigitsThen(s, DigitsThen(s, DigitsThen(s, i, {":"}), {":"}), {",", "."}))

\* [^\n]* : greedy, up to the next newline or the end of the string
RECURSIVE LineEnd(_, _)
LineEnd(s, i) == IF i < Len(s) /\ s[i + 1] # NL THEN LineEnd(s, i + 1) ELSE i

\* a look-ahead that accepts only the end of the input
Lookahead_EndOnly(s, i) == i = Len(s)

\* (?=(?:\d+\n\d+:|\Z))
Lookahead(s, i) ==
    \/ DigitsThen(s, DigitsThen(s, i, {NL}), {":"}) # NoMatch
    \/ i = Len(s)

\* (?:\n|\Z): the offsets it can end at, in the order the regex tries them
NewlineOrEnd(s, i) ==
    (IF Lit(s, i, NL) THEN <<i + 1>> ELSE <<>>) \o (IF i = Len(s) THEN <<i>> ELSE <<>>)

\* (?:\n|\Z)(?:\n|\Z)(?=(?:\d+\n\d+:|\Z)) at offset i: the first end the
\* backtracking finds, or NoMatch
TerminatorEnd(s, i) ==
    LET ends == Concat([j \in 1..Len(NewlineOrEnd(s, i)) |->
                          SelectSeq(NewlineOrEnd(s, NewlineOrEnd(s, i)[j]),
                                    LAMBDA e : Lookahead(s, e))])
    IN IF ends = <<>> THEN NoMatch ELSE ends[1]

\* (.*?) with DOTALL, then the terminator: the shortest content after which
\* the terminator matches.  At i = Len(s) the terminator always matches.
RECURSIVE ContentEnd(_, _)
ContentEnd(s, i) == IF TerminatorEnd(s, i) # NoMatch THEN i ELSE ContentEnd(s, i + 1)

\* SRT_REGEX.match(s, i): the match that starts exactly at offset i
MatchAt(s, i) ==
    LET e_index == DigitsThen(s, i, {NL})
        e_start == TimestampEnd(s, e_index)
        e_arrow == LitSeq(s, e_start, <<" ", "-", "-", ">", " ">>)
        e_end == TimestampEnd(s, e_arrow)
    IN IF e_end = NoMatch THEN [ok |-> FALSE]
       ELSE LET b_prop == IF Lit(s, e_end, " ") THEN e_end + 1 ELSE e_end
                e_prop == LineEnd(s, b_prop)
            IN IF ~Lit(s, e_prop, NL) THEN [ok |-> FALSE]
               ELSE LET b_content == e_prop + 1
                        e_content == ContentEnd(s, b_content)
                    IN [ok |-> TRUE,
                        start |-> i,
                        end |-> TerminatorEnd(s, e_content),
                        content_start |-> b_content,
                        groups |-> <<Slice(s, i, e_index - 1),
                                     Slice(s, e_index, e_start),
                                     Slice(s, e_arrow, e_end),
                                     Slice(s, b_prop, e_prop),
                                     Slice(s, b_content, e_content)>>]

\* the next match SRT_REGEX.finditer(s) gives when it resumes at offset i
RECURSIVE NextMatch(_, _)
NextMatch(s, i) ==
    IF i > Len(s) THEN [ok |-> FALSE]
    ELSE LET m == MatchAt(s, i) IN IF m.ok THEN m ELSE NextMatch(s, i + 1)

-----------------------------------------------------------------------------
(* parse and _raise_if_not_contiguous *)

NoError == [raised |-> FALSE]

SRTParseError(expected, actual, unmatched_content) ==
    [raised |-> TRUE, expected_start |-> expected, actual_start |-> actual,
     unmatched_content |-> unmatched_content]

\* the unmatched content taken up to the end of the text
raise_with_rest_of_text(s, expected, actual) ==
    IF expected # actual
    THEN SRTParseError(expected, actual, Slice(s, expected, Len(s)))
    ELSE NoError

\* the exception _raise_if_not_contiguous raises, or NoError when it returns
_raise_if_not_contiguous(s, expected, actual) ==
    IF expected # actual
    THEN SRTParseError(expected, actual, Slice(s, expected, actual))
    ELSE NoError

\* the Subtitle parse builds from match.groups(), or the OverflowError that
\* converting one of its timestamps raises
SubtitleOfMatch(m) ==
    LET start == srt_timestamp_to_timedelta(m.groups[2])
        end == srt_timestamp_to_timedelta(m.groups[3])
    IN IF start = OverflowError \/ end = OverflowError THEN OverflowError
       ELSE Subtitle(int(m.groups[1]), start, end, m.groups[5], m.groups[4])

-----------------------------------------------------------------------------
(* Subtitle comparisons: __eq__, __lt__ and what functools.total_ordering  *)
(* derives from them                                                       *)

\* __eq__: vars(self) == vars(other)
SubtitleEq(a, b) == a = b

\* __lt__
SubtitleLt(a, b) == TimedeltaLess(a.start, b.start)

\* total_ordering, from __lt__: a > b is (not a < b) and a != b
SubtitleGt(a, b) == ~SubtitleLt(a, b) /\ ~SubtitleEq(a, b)

\* total_ordering, from __lt__: a <= b is a < b or a == b
SubtitleLe(a, b) == SubtitleLt(a, b) \/ SubtitleEq(a, b)

\* total_ordering, from __lt__: a >= b is not a < b
SubtitleGe(a, b) == ~SubtitleLt(a, b)

-----------------------------------------------------------------------------
(* make_legal_content, Subtitle.to_srt, sort_and_reindex, compose *)

IsNonEmpty(line) == line # <<>>

\* the lines rejoined without the filter
make_legal_content_unfiltered(c) == Join(SplitOn(c, {NL}), NL)

make_legal_content(c) == Join(SelectSeq(SplitOn(c, {NL}), IsNonEmpty), NL)

to_srt(self, strict) ==
    LET output_proprietary == IF self.proprietary # <<>>
                              THEN <<" ">> \o self.proprietary ELSE self.proprietary
        output_content == IF strict THEN make_legal_content(self.content)
                          ELSE self.content
    IN FormatD(self.index) \o <<NL>> \o
       timedelta_to_srt_timestamp(self.start) \o <<" ", "-", "-", ">", " ">> \o
       timedelta_to_srt_timestamp(self.end) \o output_proprietary \o <<NL>> \o
       output_content \o <<NL, NL>>

\* an unstable sort: x is put before the elements it is equal to
RECURSIVE InsertSorted_BeforeEqual(_, _, _)
InsertSorted_BeforeEqual(vals, done, x) ==
    IF done # <<>> /\ ~SubtitleLt(vals[done[Len(done)]], vals[x])
    THEN Append(InsertSorted_BeforeEqual(vals, SubSeq(done, 1, Len(done) - 1), x),
                done[Len(done)])
    ELSE Append(done, x)

\* sorted(): a stable sort that compares with __lt__ only.  Insert x after
\* every element that is not greater than it.
RECURSIVE InsertSorted(_, _, _)
InsertSorted(vals, done, x) ==
    IF done # <<>> /\ SubtitleLt(vals[x], vals[done[Len(done)]])
    THEN Append(InsertSorted(vals, SubSeq(done, 1, Len(done) - 1), x), done[Len(done)])
    ELSE Append(done, x)

\* sorted(subtitles), as the sequence of positions (or object ids) in order;
\* vals maps each to its Subtitle
RECURSIVE sorted(_, _)
sorted(vals, refs) ==
    IF refs = <<>> THEN <<>>
    ELSE InsertSorted(vals, sorted(vals, SubSeq(refs, 1, Len(refs) - 1)), refs[Len(refs)])

\* not subtitle.content.strip()
IsContentless(subtitle) == Strip(subtitle.content) = <<>>

\* One resumption of the loop of sort_and_reindex: from position p (elements
\* taken so far) with `skipped` contentless ones dropped, run to the next
\* yield or to the end.  taken is the number of elements consumed after it.
RECURSIVE LoopToYield(_, _, _, _)
LoopToYield(vals, order, p, skipped) ==
    IF p >= Len(order) THEN [yields |-> FALSE, taken |-> p, skipped |-> skipped]
    ELSE IF IsContentless(vals[order[p + 1]])
         THEN LoopToYield(vals, order, p + 1, skipped + 1)
         ELSE [yields |-> TRUE, taken |-> p + 1, skipped |-> skipped,
               ref |-> order[p + 1]]

\* subtitle.index = sub_num - skipped_subs, where enumerate(start=start_index)
\* numbers the element at 1-based position `taken` start_index + taken - 1
NewIndex(start, taken, skipped) == (start + taken - 1) - skipped

\* list(sort_and_reindex(subtitles, start_index)) for a sequence of values
RECURSIVE ReindexFrom(_, _, _, _, _)
ReindexFrom(vals, order, start, p, skipped) ==
    LET r == LoopToYield(vals, order, p, skipped)
    IN IF ~r.yields THEN <<>>
       ELSE <<[vals[r.ref] EXCEPT !.index = NewIndex(start, r.taken, r.skipped)]>> \o
            ReindexFrom(vals, order, start, r.taken, r.skipped)

sort_and_reindex(subtitles, start) ==
    ReindexFrom(subtitles, sorted(subtitles, [k \in 1..Len(subtitles) |-> k]), start, 0, 0)

compose(subtitles, reindex, start, strict) ==
    LET ss == IF reindex THEN sort_and_reindex(subtitles, start) ELSE subtitles
    IN Concat([k \in 1..Len(ss) |-> to_srt(ss[k], strict)])

-----------------------------------------------------------------------------
(* The inputs of the model *)

MaxNewlines == 3
MaxSubs == 3
MaxLen == 5
MaxDays == 5

Ts(sec) == <<"0", "0", ":", "0", "0", ":", "0", sec, ",", "0", "0", "0">>
Arrow == <<" ", "-", "-", ">", " ">>

\* index line and timing line of a block, in the form compose writes them
Head1 == <<"1", NL>> \o Ts("1") \o Arrow \o Ts("2") \o <<NL>>
Head2 == <<"2", NL>> \o Ts("3") \o Arrow \o Ts("4") \o <<NL>>
\* a header other tools write: short fields, '.' before the milliseconds,
\* proprietary text after the end time
Head3 == <<"3", NL, "0", ":", "0", ":", "2", ".", "5">> \o Arrow \o
         <<"0", ":", "0", ":", "6", ",", "0", " ", "p", NL>>
\* a header whose start time is one hour more than a timedelta can hold
Head4 == <<"4", NL>> \o
         <<"2", "4", "0", "0", "0", "0", "0", "0", "0", "0", "0", ":",
           "0", "0", ":", "0", "0", ",", "0", "0", "0">> \o
         Arrow \o Ts("1") \o <<NL>>
Heads == {<<>>, Head1, Head2, Head3, Head4}

\* text before a block's header: nothing, a stray character, a stray
\* newline, or something that starts like an index and a timestamp
Garbage == {<<>>, <<"x">>, <<NL>>, <<"1", NL, "2", ":">>}

\* content: none, one line, or two lines with a blank line between them
Contents == {<<>>, <<"x">>, <<"x", NL, NL, "y">>}

Segments == {g \o h \o c \o Repeat(NL, k) :
                g \in Garbage, h \in Heads, c \in Contents, k \in 0..MaxNewlines}

Texts == {a \o b : a \in Segments, b \in Segments}

\* fixed values of the variables a specification does not use
IdleParse ==
    /\ srt = <<>> /\ pos = 0 /\ expected_start = 0 /\ pending_end = NoMatch
    /\ subs = <<>> /\ spans = <<>> /\ error = NoError /\ ppc = "idle"
    /\ composed = <<>>
IdleSort ==
    /\ heap = <<>> /\ orig = <<>> /\ input = <<>> /\ start_index = 1
    /\ in_place = FALSE /\ sorted_subs = <<>> /\ sub_pos = 0 /\ skipped_subs = 0
    /\ yielded = <<>> /\ spc = "idle"
IdleLegal == content = <<>> /\ legal_once = <<>> /\ legal_twice = <<>> /\ lpc = "idle"
IdleCmp == sub_a = <<>> /\ sub_b = <<>> /\ cmp = <<>> /\ cpc = "idle"
IdleCodec ==
    /\ dur = <<>> /\ ts_text = <<>> /\ decoded = <<>> /\ decoded_dot = <<>>
    /\ tpc = "idle"

-----------------------------------------------------------------------------
(* parse(srt), pulled by its consumer one next() at a time.  Each action is *)
(* one next(): it resumes after the yield (expected_start = match.end()),   *)
(* asks finditer for the next match and runs to the next yield, raise or    *)
(* return.                                                                  *)

InitParse ==
    /\ srt \in Texts
    /\ pos = 0
    /\ expected_start = 0
    /\ pending_end = NoMatch
    /\ subs = <<>>
    /\ spans = <<>>
    /\ error = NoError
    /\ ppc = "run"
    /\ composed = <<>>
    /\ IdleSort /\ IdleLegal /\ IdleCmp /\ IdleCodec

\* expected_start once the generator has resumed: line 233 runs first
ResumedExpectedStart == IF pending_end # NoMatch THEN pending_end ELSE expected_start

\* for match in SRT_REGEX.finditer(srt): a contiguous match is yielded
ParseYield ==
    /\ ppc = "run"
    /\ LET m == NextMatch(srt, pos)
       IN /\ m.ok
          /\ _raise_if_not_contiguous(srt, ResumedExpectedStart, m.start) = NoError
          /\ SubtitleOfMatch(m) # OverflowError
          /\ subs' = Append(subs, SubtitleOfMatch(m))
          /\ spans' = Append(spans, <<m.start, m.end>>)
          /\ pos' = m.end
          /\ pending_end' = m.end
    /\ expected_start' = ResumedExpectedStart
    /\ UNCHANGED <<srt, error, ppc, composed>>
    /\ UNCHANGED <<sortVars, legalVars, cmpVars, codecVars>>

\* the block handed to the consumer before its start is checked
ParseRaiseGap_YieldFirst ==
    /\ ppc = "run"
    /\ LET m == NextMatch(srt, pos)
       IN /\ m.ok
          /\ _raise_if_not_contiguous(srt, ResumedExpectedStart, m.start) # NoError
          /\ error' = _raise_if_not_contiguous(srt, ResumedExpectedStart, m.start)
          /\ subs' = Append(subs, SubtitleOfMatch(m))
    /\ expected_start' = ResumedExpectedStart
    /\ pending_end' = NoMatch
    /\ ppc' = "error"
    /\ UNCHANGED <<srt, pos, spans, composed>>
    /\ UNCHANGED <<sortVars, legalVars, cmpVars, codecVars>>

\* a match that does not start where the last one ended
ParseRaiseGap ==
    /\ ppc = "run"
    /\ LET m == NextMatch(srt, pos)
       IN /\ m.ok
          /\ _raise_if_not_contiguous(srt, ResumedExpectedStart, m.start) # NoError
          /\ error' = _raise_if_not_contiguous(srt, ResumedExpectedStart, m.start)
    /\ expected_start' = ResumedExpectedStart
    /\ pending_end' = NoMatch
    /\ ppc' = "error"
    /\ UNCHANGED <<srt, pos, subs, spans, composed>>
    /\ UNCHANGED <<sortVars, legalVars, cmpVars, codecVars>>

\* a contiguous match with a timestamp that timedelta() cannot hold: the
\* OverflowError leaves parse before the yield
ParseRaiseOverflow ==
    /\ ppc = "run"
    /\ LET m == NextMatch(srt, pos)
       IN /\ m.ok
          /\ _raise_if_not_contiguous(srt, ResumedExpectedStart, m.start) = NoError
          /\ SubtitleOfMatch(m) = OverflowError
          /\ error' = SubtitleOfMatch(m)
    /\ expected_start' = ResumedExpectedStart
    /\ pending_end' = NoMatch
    /\ ppc' = "overflow"
    /\ UNCHANGED <<srt, pos, subs, spans, composed>>
    /\ UNCHANGED <<sortVars, legalVars, cmpVars, codecVars>>

\* no further match, and text is left after the last one
ParseRaiseTail ==
    /\ ppc = "run"
    /\ ~NextMatch(srt, pos).ok
    /\ _raise_if_not_contiguous(srt, ResumedExpectedStart, Len(srt)) # NoError
    /\ error' = _raise_if_not_contiguous(srt, ResumedExpectedStart, Len(srt))
    /\ expected_start' = ResumedExpectedStart
    /\ pending_end' = NoMatch
    /\ ppc' = "error"
    /\ UNCHANGED <<srt, pos, subs, spans, composed>>
    /\ UNCHANGED <<sortVars, legalVars, cmpVars, codecVars>>

\* no further match, and the matches reached the end: StopIteration
ParseStop ==
    /\ ppc = "run"
    /\ ~NextMatch(srt, pos).ok
    /\ _raise_if_not_contiguous(srt, ResumedExpectedStart, Len(srt)) = NoError
    /\ expected_start' = ResumedExpectedStart
    /\ pending_end' = NoMatch
    /\ ppc' = "done"
    /\ UNCHANGED <<srt, pos, subs, spans, error, composed>>
    /\ UNCHANGED <<sortVars, legalVars, cmpVars, codecVars>>

\* compose(parse(srt)) with the default flags, once sorted() has drawn the
\* whole parse
ComposeParsed ==
    /\ ppc = "done"
    /\ composed' = compose(subs, TRUE, 1, TRUE)
    /\ ppc' = "composed"
    /\ UNCHANGED <<srt, pos, expected_start, pending_end, subs, spans, error>>
    /\ UNCHANGED <<sortVars, legalVars, cmpVars, codecVars>>

NextParse ==
    \/ ParseYield
    \/ ParseRaiseGap
    \/ ParseRaiseOverflow
    \/ ParseRaiseTail
    \/ ParseStop
    \/ ComposeParsed

SpecParse == InitParse /\ [][NextParse]_vars

-----------------------------------------------------------------------------
(* Properties of parse and compose, checked under SpecParse *)

Finished == ppc \in {"done", "error", "overflow", "composed"}

\* the spans tile [0, n): the first starts at 0, each later one starts where
\* the one before ended, the last ends at n
Tiles(sp, n) ==
    IF sp = <<>> THEN n = 0
    ELSE /\ sp[1][1] = 0
         /\ \A k \in 2..Len(sp) : sp[k][1] = sp[k - 1][2]
         /\ sp[Len(sp)][2] = n

LastEnd(sp) == IF sp = <<>> THEN 0 ELSE sp[Len(sp)][2]

\* The text format of the specification, line by line: blocks of an index
\* line, a timing line, one or more non-blank content lines without stray
\* whitespace, and a blank line.
IsCanonicalTimestamp(t) ==
    /\ Len(t) = 12
    /\ \A k \in {1, 2, 4, 5, 7, 8, 10, 11, 12} : t[k] \in DigitChars
    /\ t[3] = ":" /\ t[6] = ":" /\ t[9] = ","
    /\ t[4] \in {"0", "1", "2", "3", "4", "5"}
    /\ t[7] \in {"0", "1", "2", "3", "4", "5"}

IsIndexLine(l) == l # <<>> /\ \A k \in 1..Len(l) : l[k] \in DigitChars

IsTimingLine(l) ==
    /\ Len(l) >= 29
    /\ IsCanonicalTimestamp(Slice(l, 0, 12))
    /\ Slice(l, 12, 17) = Arrow
    /\ IsCanonicalTimestamp(Slice(l, 17, 29))
    /\ \/ Len(l) = 29
       \/ Len(l) > 30 /\ l[30] = " " /\ l[31] # " " /\ l[Len(l)] # " "

IsContentLine(l) == l # <<>> /\ l[1] \notin Whitespace /\ l[Len(l)] \notin Whitespace

\* lines[i..] is content lines, a blank line, then further blocks or the
\* empty piece after the last newline
RECURSIVE BlocksFrom(_, _)
RECURSIVE ContentFrom(_, _)
ContentFrom(lines, i) ==
    /\ i <= Len(lines)
    /\ IF lines[i] = <<>>
       THEN \/ i + 1 = Len(lines) /\ lines[i + 1] = <<>>
            \/ BlocksFrom(lines, i + 1)
       ELSE IsContentLine(lines[i]) /\ ContentFrom(lines, i + 1)
BlocksFrom(lines, i) ==
    /\ i + 3 <= Len(lines)
    /\ IsIndexLine(lines[i])
    /\ IsTimingLine(lines[i + 1])
    /\ IsContentLine(lines[i + 2])
    /\ ContentFrom(lines, i + 3)

IsWellFormed(text) == BlocksFrom(SplitOn(text, {NL}), 1)

\* C1: for every well-formed SRT text, compose(parse(text)) with the default
\* flags (reindex=True, start_index=1, strict=True) equals text
C1_ComposeParseRoundTrip ==
    (ppc = "composed" /\ IsWellFormed(srt)) => composed = srt

\* the headers whose timestamps are durations
RealHeads == {Head1, Head2, Head3}
ContentLines == {<<"x">>}
ValidBlocks == {h \o c \o <<NL, NL>> : h \in RealHeads, c \in ContentLines}
Injected == Garbage \ {<<>>}

\* c begins like an index line and the start of a timestamp: digits, a
\* newline, digits, a colon
StartsLikeBlock(c) == DigitsThen(c, DigitsThen(c, 0, {NL}), {":"}) # NoMatch

\* no block match begins at an offset in [a, b)
NoMatchStartsIn(s, a, b) == \A i \in a..(b - 1) : ~MatchAt(s, i).ok

\* C2, as claimed: for any two valid blocks A and B and any non-empty
\* string c injected between them, parse(A + c + B) pulled to exhaustion
\* fails with a ParseError whose unmatched_content is exactly c
C2_AnyInjectionIsReported ==
    \A A \in ValidBlocks, B \in ValidBlocks, c \in Injected :
        (srt = A \o c \o B /\ Finished) =>
            (error.raised /\ error.unmatched_content = c)

\* C2, amended: the same when c begins like an index line and the start of
\* a timestamp and no block match begins inside c; then the error is raised
\* after A's Subtitle has been yielded, with expected_start at the end of A
C2_BlockLikeInjectionIsReported ==
    \A A \in ValidBlocks, B \in ValidBlocks, c \in Injected :
        (/\ srt = A \o c \o B
         /\ Finished
         /\ StartsLikeBlock(c)
         /\ NoMatchStartsIn(srt, Len(A), Len(A) + Len(c))) =>
            /\ error.raised
            /\ error.unmatched_content = c
            /\ error.expected_start = Len(A)
            /\ error.actual_start = Len(A) + Len(c)

C2_Witness ==
    /\ ppc = "error"
    /\ \E A \in ValidBlocks, B \in ValidBlocks, c \in Injected :
          srt = A \o c \o B /\ StartsLikeBlock(c) /\ error.unmatched_content = c

\* C3: a parse pulled to exhaustion either raises ParseError or the spans
\* of the matched blocks tile the input, and ends in no other way; when it
\* raises ParseError, expected_start is the end of the last matched block
\* (0 if none) and unmatched_content is text[expected_start:actual_start]
C3_ParseIsTotal ==
    /\ Finished => ppc \in {"done", "composed", "error"}
    /\ ppc \in {"done", "composed"} => (~error.raised /\ Tiles(spans, Len(srt)))
    /\ ppc = "error" =>
          /\ error.raised
          /\ error.expected_start = LastEnd(spans)
          /\ error.actual_start > error.expected_start
          /\ error.unmatched_content =
                SubSeq(srt, error.expected_start + 1, error.actual_start)
          /\ Tiles(spans, error.expected_start)

\* C4, as claimed: in every run of parse that ends in ParseError the
\* consumer has received no Subtitle before the error
C4_NoPartialResult == ppc = "error" => subs = <<>>

\* C4, amended: parse is lazy, so when it ends in ParseError the consumer
\* has received exactly the Subtitles of the blocks matched before the gap,
\* one per block and in order, whose spans tile text[0:expected_start];
\* nothing is delivered after the error
C4_PartialResultIsThePrefix ==
    ppc = "error" =>
        /\ Len(subs) = Len(spans)
        /\ Tiles(spans, error.expected_start)
        /\ \A k \in 1..Len(subs) :
              /\ MatchAt(srt, spans[k][1]).ok
              /\ MatchAt(srt, spans[k][1]).end = spans[k][2]
              /\ subs[k] = SubtitleOfMatch(MatchAt(srt, spans[k][1]))
        /\ ~ENABLED NextParse

C4_Witness == ppc = "error" /\ Len(subs) >= 1 /\ error.expected_start > 0

\* k newlines
Newlines(k) == Repeat(NL, k)

\* C8, as claimed: two valid blocks with k newlines (k in 0..2) after the
\* first block's content and k2 newlines after the last block parse to two
\* Subtitles, the first with the first block's content lines only, and no
\* ParseError
C8_FewerNewlinesBetweenBlocks ==
    \A h1 \in RealHeads, h2 \in RealHeads, c1 \in ContentLines, c2 \in ContentLines :
        \A k \in 0..2, k2 \in 0..2 :
            (srt = h1 \o c1 \o Newlines(k) \o h2 \o c2 \o Newlines(k2) /\ Finished) =>
                /\ ~error.raised
                /\ Len(subs) = 2
                /\ subs[1].content = c1

\* C8, amended: no ParseError is raised for any such k and k2; with k = 2
\* parse yields two Subtitles with the blocks' own content whatever k2 is;
\* with k in {0, 1} it yields one Subtitle whose content runs on through the
\* rest of the text up to the trailing newlines
C8_TrailingNewlinesAtEndOnly ==
    \A h1 \in RealHeads, h2 \in RealHeads, c1 \in ContentLines, c2 \in ContentLines :
        \A k \in 0..2, k2 \in 0..2 :
            (srt = h1 \o c1 \o Newlines(k) \o h2 \o c2 \o Newlines(k2) /\ Finished) =>
                /\ ~error.raised
                /\ k = 2 => /\ Len(subs) = 2
                            /\ subs[1].content = c1
                            /\ subs[2].content = c2
                /\ k < 2 => /\ Len(subs) = 1
                            /\ subs[1].content = c1 \o Newlines(k) \o h2 \o c2

C8_Witness ==
    /\ ppc = "done"
    /\ Len(subs) = 2
    /\ \E h1 \in RealHeads, h2 \in RealHeads, k2 \in 0..1 :
          srt = h1 \o <<"x">> \o Newlines(2) \o h2 \o <<"x">> \o Newlines(k2)

\* the line that starts at offset b is blank: a newline right after a newline
IsBlankLine(s, b) == Lit(s, b, NL) /\ b >= 1 /\ Lit(s, b - 1, NL)

\* end of input follows the blank line at b, or a line of digits and then a
\* line that starts with digits and a colon
BoundaryRule(s, b) ==
    \/ b + 1 = Len(s)
    \/ DigitsThen(s, DigitsThen(s, b + 1, {NL}), {":"}) # NoMatch

\* C10: in every block parse yields, a blank line among the lines after the
\* timing line ends the block if and only if the boundary rule holds for
\* it; a blank line for which it does not hold stays inside the block, and
\* the block ends at the first blank line for which it holds
C10_BlankLineEndsBlockIffRule ==
    \A k \in 1..Len(spans) :
        LET m == MatchAt(srt, spans[k][1])
        IN \A b \in m.content_start..(m.end - 1) :
              IsBlankLine(srt, b) => ((m.end = b + 1) <=> BoundaryRule(srt, b))

-----------------------------------------------------------------------------
(* sort_and_reindex(subtitles, start_index, in_place), pulled by its        *)
(* consumer one next() at a time.  The caller's Subtitles are objects on a  *)
(* heap; the copy made when in_place is false allocates a new one.          *)

Seconds(n) == timedelta(0, 0, n, 0)

\* what a caller's Subtitle carries besides its index and start: two with
\* content, which differ in every field, and two that sort_and_reindex drops
SubtitleBodies ==
    {[content |-> <<"x">>, end |-> 5, proprietary |-> <<>>],
     [content |-> <<"y">>, end |-> 6, proprietary |-> <<"p">>],
     [content |-> <<>>, end |-> 5, proprietary |-> <<>>],
     [content |-> <<" ">>, end |-> 5, proprietary |-> <<>>]}

SubtitleValues ==
    {Subtitle(i, Seconds(st), Seconds(b.end), b.content, b.proprietary) :
        i \in {3, 9}, st \in {1, 2}, b \in SubtitleBodies}

StartIndexes == {1, 7}

InitSort ==
    /\ \E n \in 0..MaxSubs :
          /\ heap \in [1..n -> SubtitleValues]
          /\ input = [k \in 1..n |-> k]
    /\ orig = heap
    /\ start_index \in StartIndexes
    /\ in_place \in BOOLEAN
    /\ sorted_subs = <<>>
    /\ sub_pos = 0
    /\ skipped_subs = 0
    /\ yielded = <<>>
    /\ spc = "new"
    /\ IdleParse /\ IdleLegal /\ IdleCmp /\ IdleCodec

\* the first next() evaluates sorted(subtitles)
SortedNow == IF spc = "new" THEN sorted(heap, input) ELSE sorted_subs

\* the in_place flag ignored: the caller's objects are always written to
LoopEffect_AlwaysInPlace(h, order, from, r, start, inplace) ==
    IF r.yields
    THEN [heap |-> [h EXCEPT ![r.ref].index = NewIndex(start, r.taken, r.skipped)],
          ref |-> r.ref]
    ELSE [heap |-> h, ref |-> 0]

\* The heap after one resumption of the loop that took the elements
\* order[from + 1 .. r.taken], and the object it yields (if any).  Unless
\* in_place, each element taken is copied to a new object, also one that is
\* then dropped; the element that is yielded gets its new index.
LoopEffect(h, order, from, r, start, inplace) ==
    LET copies == [k \in 1..(r.taken - from) |-> h[order[from + k]]]
        target == IF inplace THEN r.ref ELSE Len(h) + (r.taken - from)
        h1 == IF inplace THEN h ELSE h \o copies
    IN IF r.yields
       THEN [heap |-> [h1 EXCEPT ![target].index = NewIndex(start, r.taken, r.skipped)],
             ref |-> target]
       ELSE [heap |-> h1, ref |-> 0]

\* next() that runs to a yield
SortYield ==
    /\ spc \in {"new", "run"}
    /\ LET r == LoopToYield(heap, SortedNow, sub_pos, skipped_subs)
           e == LoopEffect(heap, SortedNow, sub_pos, r, start_index, in_place)
       IN /\ r.yields
          /\ heap' = e.heap
          /\ yielded' = Append(yielded, [ref |-> e.ref, value |-> e.heap[e.ref]])
          /\ sub_pos' = r.taken
          /\ skipped_subs' = r.skipped
    /\ sorted_subs' = SortedNow
    /\ spc' = "run"
    /\ UNCHANGED <<orig, input, start_index, in_place>>
    /\ UNCHANGED <<parseVars, legalVars, cmpVars, codecVars>>

\* next() that runs off the end of the sorted list: StopIteration
SortStop ==
    /\ spc \in {"new", "run"}
    /\ LET r == LoopToYield(heap, SortedNow, sub_pos, skipped_subs)
           e == LoopEffect(heap, SortedNow, sub_pos, r, start_index, in_place)
       IN /\ ~r.yields
          /\ heap' = e.heap
          /\ sub_pos' = r.taken
          /\ skipped_subs' = r.skipped
    /\ sorted_subs' = SortedNow
    /\ spc' = "done"
    /\ UNCHANGED <<orig, input, start_index, in_place, yielded>>
    /\ UNCHANGED <<parseVars, legalVars, cmpVars, codecVars>>

NextSort == SortYield \/ SortStop

SpecSort == InitSort /\ [][NextSort]_vars

-----------------------------------------------------------------------------
(* Properties of sort_and_reindex, checked under SpecSort *)

\* the reference result: the kept inputs (content not empty after
\* stripping), each placed by the number of kept inputs that go before it
\* (an earlier start, or the same start and an earlier place in the input),
\* with index start_index + that number
Kept == {i \in 1..Len(input) : Strip(orig[input[i]].content) # <<>>}

GoesBefore(j, i) ==
    \/ TimedeltaLess(orig[input[j]].start, orig[input[i]].start)
    \/ orig[input[j]].start = orig[input[i]].start /\ j < i

Rank(i) == Cardinality({j \in Kept : GoesBefore(j, i)})

\* the places in the input of the kept subtitles, in the order of the result
ReferenceOrder ==
    [k \in 1..Cardinality(Kept) |-> CHOOSE i \in Kept : Rank(i) = k - 1]

Reference ==
    [k \in 1..Cardinality(Kept) |->
        [orig[input[ReferenceOrder[k]]] EXCEPT !.index = start_index + (k - 1)]]

YieldedValues == [k \in 1..Len(yielded) |-> yielded[k].value]

\* C5: sort_and_reindex yields exactly the reference result: what has been
\* yielded so far is the beginning of it, and all of it once the output is
\* exhausted; so equal-start subtitles come out in their input order (and,
\* in place, as the caller's objects in that order), indices are contiguous
\* from start_index, a dropped subtitle consumes no index, the output is no
\* longer than the input and the other fields are unchanged
C5_SortAndReindexIsReference ==
    /\ Len(yielded) <= Cardinality(Kept)
    /\ YieldedValues = SubSeq(Reference, 1, Len(yielded))
    /\ spc = "done" => YieldedValues = Reference
    /\ in_place =>
          \A k \in 1..Len(yielded) : yielded[k].ref = input[ReferenceOrder[k]]
    /\ Len(yielded) <= Len(input)
    /\ \A k \in 1..Len(yielded) : yielded[k].value.index = start_index + (k - 1)

\* two subtitles with the same start that differ in content, end and
\* proprietary, a dropped subtitle with an earlier start between them in
\* the input, and the output exhausted: the first of the two comes first
C5_Witness ==
    /\ spc = "done"
    /\ Len(yielded) = 2
    /\ Len(input) = 3
    /\ orig[input[1]].start = orig[input[3]].start
    /\ orig[input[1]].index # orig[input[3]].index
    /\ orig[input[1]].content # orig[input[3]].content
    /\ orig[input[1]].end # orig[input[3]].end
    /\ orig[input[1]].proprietary # orig[input[3]].proprietary
    /\ Strip(orig[input[2]].content) = <<>>
    /\ TimedeltaLess(orig[input[2]].start, orig[input[1]].start)
    /\ yielded[1].value.content = orig[input[1]].content
    /\ yielded[2].value.content = orig[input[3]].content

\* C6: with in_place=False every field of every Subtitle of the caller is
\* unchanged and every yielded Subtitle is a new object, distinct from the
\* caller's and from the others yielded; with in_place=True every yielded
\* Subtitle is one of the caller's objects and its index has been
\* overwritten with the new index
C6_AliasingModes ==
    /\ ~in_place =>
          /\ \A i \in 1..Len(input) : heap[input[i]] = orig[input[i]]
          /\ \A k \in 1..Len(yielded) :
                /\ \A i \in 1..Len(input) : yielded[k].ref # input[i]
                /\ \A j \in 1..Len(yielded) : j # k => yielded[j].ref # yielded[k].ref
    /\ in_place =>
          /\ Len(heap) = Len(orig)
          /\ \A k \in 1..Len(yielded) :
                /\ \E i \in 1..Len(input) : yielded[k].ref = input[i]
                /\ heap[yielded[k].ref].index = start_index + (k - 1)
                /\ heap[yielded[k].ref] = yielded[k].value

C6_Witness ==
    /\ spc = "done"
    /\ in_place
    /\ Len(yielded) = 2
    /\ \A k \in 1..2 : heap[yielded[k].ref].index # orig[yielded[k].ref].index
    /\ yielded[1].ref = input[2]

-----------------------------------------------------------------------------
(* make_legal_content applied to a content string, and then to its result *)

ContentChars == {"x", "y", NL}

RECURSIVE StringsUpTo(_)
StringsUpTo(n) ==
    IF n = 0 THEN {<<>>}
    ELSE StringsUpTo(n - 1) \cup
         {Append(w, c) : w \in {v \in StringsUpTo(n - 1) : Len(v) = n - 1},
                         c \in ContentChars}

InitLegal ==
    /\ content \in StringsUpTo(MaxLen)
    /\ legal_once = <<>>
    /\ legal_twice = <<>>
    /\ lpc = "new"
    /\ IdleParse /\ IdleSort /\ IdleCmp /\ IdleCodec

Legalise ==
    /\ lpc = "new"
    /\ legal_once' = make_legal_content(content)
    /\ lpc' = "once"
    /\ UNCHANGED <<content, legal_twice>>
    /\ UNCHANGED <<parseVars, sortVars, cmpVars, codecVars>>

LegaliseAgain ==
    /\ lpc = "once"
    /\ legal_twice' = make_legal_content(legal_once)
    /\ lpc' = "twice"
    /\ UNCHANGED <<content, legal_once>>
    /\ UNCHANGED <<parseVars, sortVars, cmpVars, codecVars>>

NextLegal == Legalise \/ LegaliseAgain

SpecLegal == InitLegal /\ [][NextLegal]_vars

\* the maximal runs of characters other than the newline, in order
RECURSIVE Runs(_)
Runs(x) ==
    IF x = <<>> THEN <<>>
    ELSE IF Head(x) = NL THEN Runs(Tail(x))
    ELSE LET e == LineEnd(x, 0)
         IN <<SubSeq(x, 1, e)>> \o Runs(SubSeq(x, e + 1, Len(x)))

\* no leading newline, no trailing newline, no two newlines in a row
HasNoEmptyLine(x) ==
    /\ x # <<>> => (x[1] # NL /\ x[Len(x)] # NL)
    /\ \A k \in 1..(Len(x) - 1) : ~(x[k] = NL /\ x[k + 1] = NL)

\* C9: legalising twice gives what legalising once gives; the legalised
\* content has no empty line; its lines are the non-empty lines of the
\* original, in their order
C9_LegaliseIdempotentAndComplete ==
    /\ lpc \in {"once", "twice"} =>
          /\ HasNoEmptyLine(legal_once)
          /\ Runs(legal_once) = Runs(content)
          /\ Len(legal_once) <= Len(content)
    /\ lpc = "twice" => legal_twice = legal_once

C9_Witness ==
    /\ lpc = "twice"
    /\ content = <<NL, "x", NL, NL, "y">>
    /\ legal_once = <<"x", NL, "y">>
    /\ legal_twice = legal_once

-----------------------------------------------------------------------------
(* The comparisons of two Subtitles *)

CmpValues ==
    {Subtitle(i, Seconds(st), Seconds(en), c, <<>>) :
        i \in {1, 2}, st \in {1, 2}, en \in {2, 3}, c \in {<<"x">>, <<"y">>}}

InitCmp ==
    /\ sub_a \in CmpValues
    /\ sub_b \in CmpValues
    /\ cmp = <<>>
    /\ cpc = "new"
    /\ IdleParse /\ IdleSort /\ IdleLegal /\ IdleCodec

\* a == b, a < b, a <= b, a > b, a >= b, and b < a, b > a
Compare ==
    /\ cpc = "new"
    /\ cmp' = [eq |-> SubtitleEq(sub_a, sub_b),
               lt |-> SubtitleLt(sub_a, sub_b),
               le |-> SubtitleLe(sub_a, sub_b),
               gt |-> SubtitleGt(sub_a, sub_b),
               ge |-> SubtitleGe(sub_a, sub_b),
               rlt |-> SubtitleLt(sub_b, sub_a),
               rgt |-> SubtitleGt(sub_b, sub_a)]
    /\ cpc' = "done"
    /\ UNCHANGED <<sub_a, sub_b>>
    /\ UNCHANGED <<parseVars, sortVars, legalVars, codecVars>>

NextCmp == Compare

SpecCmp == InitCmp /\ [][NextCmp]_vars

\* C7: equality is over all five fields; each of a < b, a <= b, a > b,
\* a >= b is the same for every pair of Subtitles with these two start
\* times; a < b and b < a never both hold, nor a > b and b > a
C7_OrderingByStartOnly ==
    cpc = "done" =>
        /\ cmp.eq = (/\ sub_a.index = sub_b.index
                     /\ sub_a.start = sub_b.start
                     /\ sub_a.end = sub_b.end
                     /\ sub_a.content = sub_b.content
                     /\ sub_a.proprietary = sub_b.proprietary)
        /\ \A a \in CmpValues, b \in CmpValues :
              (a.start = sub_a.start /\ b.start = sub_b.start) =>
                  /\ SubtitleLt(a, b) = cmp.lt
                  /\ SubtitleLe(a, b) = cmp.le
                  /\ SubtitleGt(a, b) = cmp.gt
                  /\ SubtitleGe(a, b) = cmp.ge
        /\ ~(cmp.lt /\ cmp.rlt)
        /\ ~(cmp.gt /\ cmp.rgt)

-----------------------------------------------------------------------------
(* The timestamp codec: a timedelta is encoded, and the text is decoded    *)
(* as written and with "." in place of "," before the milliseconds.        *)

HoursOfDay == {0, 1, 9, 10, 23}
SixtiethsOfUnit == {0, 1, 9, 10, 59}
MicrosecondValues == {0, 1000, 99000, 100000, 999000, 1, 999, 1500, 999999}

\* normalised timedeltas: 0 <= seconds < 86400, 0 <= microseconds < 1000000
Durations ==
    {[days |-> d,
      seconds |-> h * SECONDS_IN_HOUR + m * SECONDS_IN_MINUTE + sec,
      microseconds |-> us] :
        d \in 0..MaxDays, h \in HoursOfDay, m \in SixtiethsOfUnit,
        sec \in SixtiethsOfUnit, us \in MicrosecondValues}

\* the timestamp as the editors write it that delimit msecs with sep
WithSeparator(srt_timestamp, sep) ==
    [k \in 1..Len(srt_timestamp) |->
        IF srt_timestamp[k] = "," THEN sep ELSE srt_timestamp[k]]

InitCodec ==
    /\ dur \in Durations
    /\ ts_text = <<>>
    /\ decoded = <<>>
    /\ decoded_dot = <<>>
    /\ tpc = "new"
    /\ IdleParse /\ IdleSort /\ IdleLegal /\ IdleCmp

Encode ==
    /\ tpc = "new"
    /\ ts_text' = timedelta_to_srt_timestamp(dur)
    /\ tpc' = "encoded"
    /\ UNCHANGED <<dur, decoded, decoded_dot>>
    /\ UNCHANGED <<parseVars, sortVars, legalVars, cmpVars>>

Decode ==
    /\ tpc = "encoded"
    /\ decoded' = srt_timestamp_to_timedelta(ts_text)
    /\ tpc' = "decoded"
    /\ UNCHANGED <<dur, ts_text, decoded_dot>>
    /\ UNCHANGED <<parseVars, sortVars, legalVars, cmpVars>>

DecodeDotted ==
    /\ tpc = "decoded"
    /\ decoded_dot' = srt_timestamp_to_timedelta(WithSeparator(ts_text, "."))
    /\ tpc' = "done"
    /\ UNCHANGED <<dur, ts_text, decoded>>
    /\ UNCHANGED <<parseVars, sortVars, legalVars, cmpVars>>

NextCodec == Encode \/ Decode \/ DecodeDotted

SpecCodec == InitCodec /\ [][NextCodec]_vars

IsWholeMilliseconds(d) == d.microseconds % 1000 = 0

AllDigits(s) == \A k \in 1..Len(s) : s[k] \in DigitChars

\* the number a run of two or three digits writes
TwoDigits(s, k) == DigitVal[s[k]] * 10 + DigitVal[s[k + 1]]
ThreeDigits(s, k) == DigitVal[s[k]] * 100 + TwoDigits(s, k + 1)

\* text is H..H:MM:SS,mmm for the fields of d, the hours counting the days
IsTimestampOf(text, d) ==
    LET n == Len(text)
        hours == SubSeq(text, 1, n - 10)
    IN /\ n >= 12
       /\ Len(hours) >= 2 /\ AllDigits(hours)
       /\ (Len(hours) > 2 => hours[1] # "0")
       /\ int(hours) = d.days * 24 + d.seconds \div 3600
       /\ text[n - 9] = ":" /\ AllDigits(SubSeq(text, n - 8, n - 7))
       /\ TwoDigits(text, n - 8) = (d.seconds \div 60) % 60
       /\ text[n - 6] = ":" /\ AllDigits(SubSeq(text, n - 5, n - 4))
       /\ TwoDigits(text, n - 5) = d.seconds % 60
       /\ text[n - 3] = "," /\ AllDigits(SubSeq(text, n - 2, n))
       /\ ThreeDigits(text, n - 2) = d.microseconds \div 1000

\* C11: for a duration of a non-negative whole number of milliseconds, the
\* encoded text is the hours (days * 24 + hour of the day) in two or more
\* digits, ":", two digits of minutes, ":", two digits of seconds, "," and
\* three digits of milliseconds; decoding that text gives the duration
\* back, and so does decoding it with "." in place of ","
C11_TimestampRoundTrip ==
    IsWholeMilliseconds(dur) =>
        /\ tpc \in {"encoded", "decoded", "done"} => IsTimestampOf(ts_text, dur)
        /\ tpc \in {"decoded", "done"} => decoded = dur
        /\ tpc = "done" => decoded_dot = dur /\ decoded_dot = decoded

\* a duration of four days or more (three digits of hours) with
\* milliseconds, minutes and seconds, taken through both decodings
C11_Witness ==
    /\ tpc = "done"
    /\ IsWholeMilliseconds(dur)
    /\ dur.days >= 4 /\ dur.seconds >= 23 * SECONDS_IN_HOUR + 61
    /\ dur.microseconds > 0
    /\ Len(ts_text) = 13
    /\ decoded_dot = dur

-----------------------------------------------------------------------------
(* The whole model *)

Init == InitParse \/ InitSort \/ InitLegal \/ InitCmp \/ InitCodec

Next == NextParse \/ NextSort \/ NextLegal \/ NextCmp \/ NextCodec

Spec == Init /\ [][Next]_vars

=============================================================================
